---- MODULE Spec2Model ----
(***************************************************************************)
(* Model of fact_plots/scripts/plot_data_mc_compare.py: the command        *)
(* `main`, which reconciles the columns of several HDF5 tables             *)
(* (getCommonColumns), loads and cleans them (loadData), optionally        *)
(* removes ignored keys, opens a multi-page PDF and plots one column after *)
(* the other (calcDataRange, histpoints, savefig).                         *)
(*                                                                         *)
(* Strings are sequences of one-character strings, so that sorting,        *)
(* iterating over the characters of a string and comparing upper and lower *)
(* case are computed as Python computes them.  A cell of a data frame is a *)
(* record [k, v] whose kind k is "num", "posinf", "neginf", "nan", "list"  *)
(* or "str".                                                               *)
(***************************************************************************)
EXTENDS Integers, Sequences, FiniteSets, TLC

(***************************************************************************)
(* Bounds of the model.                                                    *)
(***************************************************************************)
MaxDatasets == 2
MaxRows == 1
\* calcDataRange on its own: the rows of the bulk of a column, its lowest value,
\* its width.
BulkRows == 101
MaxLow == 1
MaxWidth == 2

(***************************************************************************)
(* Strings.                                                                *)
(***************************************************************************)
ColB == <<"B">>
ColAb == <<"a", "b">>
FilenameKey == <<"f", "i", "l", "e", "n", "a", "m", "e">>

\* The names of the columns a table of a store may hold.
ColumnNames == {ColB, ColAb}

\* ord(c) of the characters the model uses.
Ord(c) ==
    CASE c = "," -> 44
      [] c = "A" -> 65
      [] c = "B" -> 66
      [] c = "a" -> 97
      [] c = "b" -> 98
      [] c = "e" -> 101
      [] c = "f" -> 102
      [] c = "i" -> 105
      [] c = "l" -> 108
      [] c = "m" -> 109
      [] c = "n" -> 110

\* Python's s < t on str: lexicographic on the code points.
RECURSIVE StrLt(_, _)
StrLt(s, t) ==
    IF t = <<>> THEN FALSE
    ELSE IF s = <<>> THEN TRUE
    ELSE IF Ord(Head(s)) < Ord(Head(t)) THEN TRUE
    ELSE IF Ord(Head(s)) > Ord(Head(t)) THEN FALSE
    ELSE StrLt(Tail(s), Tail(t))

\* sorted(S) of a set of str, ascending.
RECURSIVE Sorted(_)
Sorted(S) ==
    IF S = {} THEN <<>>
    ELSE LET m == CHOOSE x \in S : \A y \in S : x = y \/ StrLt(x, y)
         IN  <<m>> \o Sorted(S \ {m})

\* The elements of a sequence.
Range(s) == {s[i] : i \in DOMAIN s}

\* The orders in which a Python set may be iterated: any order of its elements.
Orders(S) ==
    {s \in [1..Cardinality(S) -> S] : \A x \in S : \E i \in DOMAIN s : s[i] = x}

\* Iterating a str yields its characters as strings of length one.
CharsOf(s) == {<<s[i]>> : i \in DOMAIN s}

(***************************************************************************)
(* Cells and frames.                                                       *)
(***************************************************************************)
Num(n) == [k |-> "num", v |-> n]
PosInf == [k |-> "posinf", v |-> 0]
NegInf == [k |-> "neginf", v |-> 0]
NaN == [k |-> "nan", v |-> 0]
ListCell == [k |-> "list", v |-> 0]
Str(n) == [k |-> "str", v |-> n]

\* The cells a table of a store may hold.
CellValues == {Num(1), PosInf, NegInf, NaN, ListCell}

\* The cells of the tables the whole command is run on.
TableCells == {Num(1), PosInf, ListCell}

\* a < b on floats: false as soon as one side is NaN.
ValLt(a, b) ==
    CASE a.k = "nan" \/ b.k = "nan" -> FALSE
      [] a.k = "neginf" -> b.k # "neginf"
      [] a.k = "posinf" -> FALSE
      [] b.k = "neginf" -> FALSE
      [] b.k = "posinf" -> TRUE
      [] OTHER -> a.v < b.v

\* Whether Python can order the cell against a float.
IsFloat(c) == c.k \in {"num", "posinf", "neginf", "nan"}

\* The frames with the given columns, at most n rows and the given cells.
FramesOf(cols, n, cells) ==
    UNION {[cols : {cols}, rows : [1..m -> [cols -> cells]]] : m \in 0..n}

\* df[key] as the sequence of its cells.
Column(df, key) == [i \in DOMAIN df.rows |-> df.rows[i][key]]

\* df.replace(np.inf, np.nan): the cells equal to +inf become NaN.
ReplaceInf(df) ==
    [df EXCEPT !.rows =
        [i \in DOMAIN df.rows |->
            [c \in df.cols |-> IF df.rows[i][c] = PosInf THEN NaN ELSE df.rows[i][c]]]]

\* df.dropna(): the rows holding a NaN are dropped.
DropNa(df) ==
    [df EXCEPT !.rows = SelectSeq(df.rows, LAMBDA r : \A c \in df.cols : r[c] # NaN)]

\* df["filename"] = os.path.basename(datafile).split(".hdf")[0]
AddFilename(df, datafile) ==
    [cols |-> df.cols \cup {FilenameKey},
     rows |-> [i \in DOMAIN df.rows |->
                 [c \in df.cols \cup {FilenameKey} |->
                     IF c = FilenameKey THEN Str(datafile) ELSE df.rows[i][c]]]]

\* loadData, lines 109-111, on the frame read_data returned.
CleanFrame(df, datafile) == AddFilename(DropNa(ReplaceInf(df)), datafile)

(***************************************************************************)
(* calcDataRange.  Series.max() and Series.min() skip NaN and are NaN on   *)
(* an empty column; a column holding a cell Python cannot order against a  *)
(* float raises TypeError.                                                 *)
(***************************************************************************)
SeriesMax(col) ==
    LET vals == {col[i] : i \in DOMAIN col} \ {NaN}
    IN  IF vals = {} THEN NaN
        ELSE CHOOSE m \in vals : \A x \in vals : ~ValLt(m, x)

SeriesMin(col) ==
    LET vals == {col[i] : i \in DOMAIN col} \ {NaN}
    IN  IF vals = {} THEN NaN
        ELSE CHOOSE m \in vals : \A x \in vals : ~ValLt(x, m)

RECURSIVE RangeLoop(_, _, _, _)
RangeLoop(frames, key, i, acc) ==
    IF i > Len(frames) THEN acc
    ELSE LET col == Column(frames[i], key)
             hi == IF ValLt(acc.max, SeriesMax(col)) THEN SeriesMax(col) ELSE acc.max
             lo == IF ValLt(SeriesMin(col), acc.min) THEN SeriesMin(col) ELSE acc.min
         IN  RangeLoop(frames, key, i + 1, [min |-> lo, max |-> hi])

\* calcDataRange looking at the first frame only.
calcDataRangeFirstFrame(frames, key) ==
    RangeLoop(<<frames[1]>>, key, 1, [min |-> PosInf, max |-> NegInf])

calcDataRange(frames, key) ==
    RangeLoop(frames, key, 1, [min |-> PosInf, max |-> NegInf])

\* Whether calcDataRange raises: some column holds a cell that is no float.
RangeRaises(frames, key) ==
    \E i \in DOMAIN frames :
        \E j \in DOMAIN frames[i].rows : ~IsFloat(frames[i].rows[j][key])

(***************************************************************************)
(* The command line and the configuration.                                 *)
(***************************************************************************)
EventsTable == "events"
RunsTable == "runs"

\* The tables a store may hold.
StoreTables == {{EventsTable, RunsTable}, {RunsTable}}

Scales == <<1, 2, 3, 4>>
Labels == <<"data", "mc", "proton", "gamma">>

\* --datatupels: tupels of path (file number i), table name, scale, label.
\* The i-th tupel names the i-th file, the i-th scale and the i-th label.
DataTupels(n) ==
    [i \in 1..n |-> [datafile |-> i, tablename |-> EventsTable,
                     scale |-> Scales[i], label |-> Labels[i]]]

\* --ignorekeys: None, or the string given.
NoIgnore == [none |-> TRUE, s |-> <<>>]
IgnoreChoices ==
    {NoIgnore,
     [none |-> FALSE, s |-> <<"B", ",", "a", "b">>],
     [none |-> FALSE, s |-> <<"a", "B">>]}

\* An entry of default_plots: False, None, or the options of the column.
OptFalse == [kind |-> "False", func |-> "", bins |-> 0, range |-> <<>>]
OptNone == [kind |-> "None", func |-> "", bins |-> 0, range |-> <<>>]
OptLog == [kind |-> "dict", func |-> "log10", bins |-> 2, range |-> <<>>]
OptFixed == [kind |-> "dict", func |-> "", bins |-> 2, range |-> <<Num(0), Num(1)>>]

\* default_plots: the columns with an entry, and the entry of each.
DefaultPlotsChoices ==
    {[c \in {ColB, ColAb} |-> IF c = ColB THEN OptLog ELSE OptFalse],
     [c \in {ColAb} |-> OptNone],
     [c \in {ColB, ColAb} |-> IF c = ColB THEN OptNone ELSE OptFixed]}

VARIABLES
    pc,              \* where the process is
    datatupels,      \* --datatupels
    ignorekeys,      \* --ignorekeys
    pdf,             \* --pdf
    default_plots,   \* the imported default_plots
    storeTables,     \* per dataset read so far: the tables of its store
    storeColumns,    \* per dataset read so far: the columns of its table
    common_columns,  \* main's common_keys before loadData
    df_list, scales, labels, datafiles,
    common_keys,     \* main's common_keys from loadData on, in iteration order
    idx,             \* position of the column loop in common_keys
    visited,         \* the keys the loop has iterated over
    pdfState,        \* "unopened", "open", "closed"
    closeCount,      \* calls of pdf_file.close()
    exitHandlers,    \* the functions registered with atexit
    pages,           \* pdf_file.savefig(): the titles of the pages
    pngs,            \* plt.savefig(<key>.png)
    openFigures,     \* figures created and not closed
    warnings,        \* logger.exception: <<key, dataset>>
    raised,          \* keys whose processing raised an exception
    lastHist,        \* the histpoints calls of the column plotted last
    lastRange,       \* the data_range of the column plotted last
    lastBins,        \* the arguments of np.linspace for the column plotted last
    exitKind,        \* how main ended
    errReport        \* what the run reported about a missing table

vars ==
    <<pc, datatupels, ignorekeys, pdf, default_plots, storeTables, storeColumns,
      common_columns, df_list, scales, labels, datafiles, common_keys, idx, visited,
      pdfState, closeCount, exitHandlers, pages, pngs, openFigures, warnings,
      raised, lastHist, lastRange, lastBins,
      exitKind, errReport>>

NoReport == [logged |-> FALSE, datafile |-> 0, tablename |-> "", keys |-> {}]
NoRange == [min |-> NaN, max |-> NaN]

inputVars == <<datatupels, ignorekeys, pdf, default_plots>>
storeVars == <<storeTables, storeColumns>>
loadVars == <<df_list, scales, labels, datafiles>>
pdfVars == <<pdfState, closeCount, exitHandlers>>
plotVars ==
    <<pages, pngs, openFigures, warnings, raised, lastHist, lastRange, lastBins>>

Init ==
    /\ pc = "start"
    /\ datatupels \in {DataTupels(n) : n \in 0..MaxDatasets}
    /\ ignorekeys \in IgnoreChoices
    /\ pdf \in BOOLEAN
    /\ default_plots \in DefaultPlotsChoices
    /\ storeTables = <<>>
    /\ storeColumns = <<>>
    /\ common_columns = [none |-> TRUE, cols |-> {}]
    /\ df_list = <<>>
    /\ scales = <<>>
    /\ labels = <<>>
    /\ datafiles = <<>>
    /\ common_keys = <<>>
    /\ idx = 1
    /\ visited = <<>>
    /\ pdfState = "unopened"
    /\ closeCount = 0
    /\ exitHandlers = <<>>
    /\ pages = <<>>
    /\ pngs = {}
    /\ openFigures = 0
    /\ warnings = {}
    /\ raised = {}
    /\ lastHist = <<>>
    /\ lastRange = NoRange
    /\ lastBins = <<>>
    /\ exitKind = ""
    /\ errReport = NoReport

(***************************************************************************)
(* getCommonColumns.                                                       *)
(***************************************************************************)
NoColumns == [none |-> TRUE, cols |-> {}]

\* The loop of getCommonColumns over the column lists of the stores.
RECURSIVE CommonLoop(_, _, _)
CommonLoop(columnLists, i, common) ==
    IF i > Len(columnLists) THEN common
    ELSE CommonLoop(columnLists, i + 1,
            IF common.none THEN [none |-> FALSE, cols |-> columnLists[i]]
            ELSE [none |-> FALSE, cols |-> common.cols \cap columnLists[i]])

getCommonColumns(columnLists) == CommonLoop(columnLists, 1, NoColumns)

\* The datasets whose store has no table of the name asked for.
MissingTable(tabs) ==
    {i \in DOMAIN tabs : datatupels[i].tablename \notin tabs[i]}

Min(S) == CHOOSE m \in S : \A x \in S : m <= x

\* main, line 157.  f[tablename] raises KeyError on the first store without
\* the table; nothing catches it.
GetCommonColumns ==
    /\ pc = "start"
    /\ \E tabs \in [DOMAIN datatupels -> StoreTables],
          cols \in [DOMAIN datatupels -> SUBSET ColumnNames] :
          IF MissingTable(tabs) = {}
          THEN /\ storeTables' = tabs
               /\ storeColumns' = cols
               /\ common_columns' = getCommonColumns(cols)
               /\ pc' = "columns"
               /\ UNCHANGED exitKind
          ELSE LET m == Min(MissingTable(tabs))
               IN  /\ storeTables' = SubSeq(tabs, 1, m)
                   /\ storeColumns' = SubSeq(cols, 1, m - 1)
                   /\ UNCHANGED common_columns
                   /\ exitKind' = "KeyError"
                   /\ pc' = "exiting"
    /\ UNCHANGED <<inputVars, loadVars, common_keys, idx, visited, pdfVars, plotVars,
                   errReport>>

(***************************************************************************)
(* loadData.                                                               *)
(***************************************************************************)
\* The position of loadData's loop: the dataset it reads next.
LoadIndex == Len(df_list) + 1

\* lines 116-119: the keys of the first frame, then the intersection.
KeysStep(i, common, cols) == IF i = 1 THEN cols ELSE Range(common) \cap cols

\* One pass of the loop of loadData (lines 92-119), without cuts.  read_data
\* returns the columns asked for, or raises KeyError when the table is missing.
LoadStep ==
    /\ pc = "columns"
    /\ LoadIndex <= Len(datatupels)
    /\ datafiles' = Append(datafiles, datatupels[LoadIndex].datafile)
    /\ scales' = Append(scales, datatupels[LoadIndex].scale)
    /\ labels' = Append(labels, datatupels[LoadIndex].label)
    /\ IF datatupels[LoadIndex].tablename \notin storeTables[LoadIndex]
       THEN /\ errReport' = [logged |-> TRUE,
                             datafile |-> datatupels[LoadIndex].datafile,
                             tablename |-> datatupels[LoadIndex].tablename,
                             keys |-> storeTables[LoadIndex]]
            /\ exitKind' = "SystemExit"
            /\ pc' = "exiting"
            /\ UNCHANGED <<df_list, common_keys>>
       ELSE \E raw \in FramesOf(common_columns.cols, MaxRows, TableCells) :
                LET df == CleanFrame(raw, datatupels[LoadIndex].datafile)
                IN  /\ df_list' = Append(df_list, df)
                    /\ common_keys' = Sorted(KeysStep(LoadIndex, common_keys, df.cols))
                    /\ UNCHANGED <<pc, exitKind, errReport>>
    /\ UNCHANGED <<inputVars, storeVars, common_columns, idx, visited, pdfVars, plotVars>>

\* line 121: return ..., sorted(common_keys); common_keys is None without datasets.
LoadReturn ==
    /\ pc = "columns"
    /\ LoadIndex > Len(datatupels)
    /\ IF datatupels = <<>>
       THEN /\ exitKind' = "TypeError"
            /\ pc' = "exiting"
            /\ UNCHANGED common_keys
       ELSE /\ common_keys' = Sorted(Range(common_keys))
            /\ pc' = "loaded"
            /\ UNCHANGED exitKind
    /\ UNCHANGED <<inputVars, storeVars, common_columns, loadVars, idx, visited, pdfVars,
                   plotVars, errReport>>

(***************************************************************************)
(* main, lines 161-177: the ignore list, the output directory, the PDF.    *)
(***************************************************************************)
\* set(common_keys).difference(ignorekeys), ignorekeys being a str.
IgnoreDifference(keys, ignored) == Range(keys) \ CharsOf(ignored)

\* The handler is never registered.
RegisterNoHandler(handlers) == handlers

\* atexit.register(exit_handler)
RegisterExitHandler(handlers) == Append(handlers, "exit_handler")

Prepare ==
    /\ pc = "loaded"
    /\ IF ignorekeys.none
       THEN UNCHANGED common_keys
       ELSE common_keys' \in Orders(IgnoreDifference(common_keys, ignorekeys.s))
    /\ IF pdf
       THEN /\ pdfState' = "open"
            /\ exitHandlers' = RegisterExitHandler(exitHandlers)
       ELSE UNCHANGED <<pdfState, exitHandlers>>
    /\ pc' = "loop"
    /\ UNCHANGED <<inputVars, storeVars, common_columns, loadVars, idx, visited,
                   closeCount, plotVars, exitKind, errReport>>

(***************************************************************************)
(* main, lines 180-278: the loop over common_keys.  Each action below is   *)
(* one pass of the loop body, told apart by the way the pass ends.         *)
(***************************************************************************)
ColorCycle == <<"black", "r", "g", "b">>

InLoop == pc = "loop" /\ idx <= Len(common_keys)
Key == common_keys[idx]

\* Whether df_list[0][key].iloc[0] raises IndexError.
FirstValueRaises == df_list[1].rows = <<>>
FirstValue == df_list[1].rows[1][Key]

HasEntry == Key \in DOMAIN default_plots
Entry == default_plots[Key]

\* A zip that pairs each frame with the scale of the next dataset.
ZipShifted(frames, ws, ls) ==
    [i \in 1..Len(frames) |->
        [df |-> frames[i], scale |-> ws[(i % Len(ws)) + 1], label |-> ls[i],
         color |-> ColorCycle[((i - 1) % Len(ColorCycle)) + 1]]]

\* zip(df_list, scales, labels, color_cycle()); color_cycle() never ends.
Zip(frames, ws, ls) ==
    [i \in 1..Min({Len(frames), Len(ws), Len(ls)}) |->
        [df |-> frames[i], scale |-> ws[i], label |-> ls[i],
         color |-> ColorCycle[((i - 1) % Len(ColorCycle)) + 1]]]

\* The histpoints calls of one column: what each was given, and whether it raised.
HistCalls(failing, upto) ==
    [i \in 1..upto |->
        [key |-> Key, df |-> Zip(df_list, scales, labels)[i].df,
         normed |-> Zip(df_list, scales, labels)[i].scale,
         label |-> Zip(df_list, scales, labels)[i].label,
         ecolor |-> Zip(df_list, scales, labels)[i].color,
         failed |-> i \in failing]]

\* np.linspace(*range, bins), lines 226-230.
Bins(opt, data_range) ==
    IF opt.kind # "dict" THEN <<>>
    ELSE IF opt.range # <<>> THEN <<opt.range[1], opt.range[2], opt.bins>>
    ELSE <<data_range.min, data_range.max, opt.bins>>

Advance ==
    /\ idx' = idx + 1
    /\ visited' = Append(visited, Key)
    /\ UNCHANGED <<pc, exitKind>>

\* An exception nothing catches ends main.
Abort(kind) ==
    /\ pc' = "exiting"
    /\ exitKind' = kind
    /\ visited' = Append(visited, Key)
    /\ raised' = raised \cup {Key}
    /\ UNCHANGED idx

restVars == <<inputVars, storeVars, common_columns, loadVars, common_keys, pdfVars, errReport>>

\* line 184 raises IndexError: the first frame has no row.
ColumnFirstValueRaises ==
    /\ InLoop
    /\ FirstValueRaises
    /\ Abort("IndexError")
    /\ UNCHANGED <<pages, pngs, openFigures, warnings, lastHist, lastRange, lastBins>>
    /\ UNCHANGED restVars

\* lines 184-186: the first value is a list or a tuple.
ColumnSkipList ==
    /\ InLoop
    /\ ~FirstValueRaises
    /\ FirstValue.k = "list"
    /\ Advance
    /\ UNCHANGED <<plotVars, restVars>>

\* lines 188-191: the key has no entry in default_plots; the figure stays open.
ColumnNoEntry ==
    /\ InLoop
    /\ ~FirstValueRaises
    /\ FirstValue.k # "list"
    /\ ~HasEntry
    /\ openFigures' = openFigures + 1
    /\ Advance
    /\ UNCHANGED <<pages, pngs, warnings, raised, lastHist, lastRange, lastBins>>
    /\ UNCHANGED restVars

\* lines 194-196: the entry is False.
ColumnDisabled ==
    /\ InLoop
    /\ ~FirstValueRaises
    /\ FirstValue.k # "list"
    /\ HasEntry
    /\ Entry.kind = "False"
    /\ Advance
    /\ UNCHANGED <<plotVars, restVars>>

Plottable ==
    /\ InLoop
    /\ ~FirstValueRaises
    /\ FirstValue.k # "list"
    /\ HasEntry
    /\ Entry.kind # "False"

\* line 198: calcDataRange raises TypeError.
ColumnRangeRaises ==
    /\ Plottable
    /\ RangeRaises(df_list, Key)
    /\ Abort("TypeError")
    /\ openFigures' = openFigures + 1
    /\ UNCHANGED <<pages, pngs, warnings, lastHist, lastRange, lastBins>>
    /\ UNCHANGED restVars

\* line 238: func(data) raises for dataset p; nothing catches it.
ColumnFuncRaises ==
    /\ Plottable
    /\ ~RangeRaises(df_list, Key)
    /\ Entry.kind = "dict"
    /\ Entry.func # ""
    /\ \E p \in DOMAIN df_list :
       \E failing \in SUBSET (1..(p - 1)) :
          /\ lastHist' = HistCalls(failing, p - 1)
          /\ warnings' = warnings \cup {<<Key, i>> : i \in failing}
    /\ lastRange' = calcDataRange(df_list, Key)
    /\ lastBins' = Bins(Entry, calcDataRange(df_list, Key))
    /\ Abort("func")
    /\ openFigures' = openFigures + 1
    /\ UNCHANGED <<pages, pngs>>
    /\ UNCHANGED restVars

\* A savefig that adds no page.
SaveNoPage(doc, key) == doc

\* pdf_file.savefig(), line 267
SavePage(doc, key) == Append(doc, key)

\* lines 198-278: the column is plotted; histpoints may raise for some
\* datasets, which is logged (lines 253-254).
ColumnPlot ==
    /\ Plottable
    /\ ~RangeRaises(df_list, Key)
    /\ \E failing \in SUBSET DOMAIN df_list :
          /\ lastHist' = HistCalls(failing, Len(Zip(df_list, scales, labels)))
          /\ warnings' = warnings \cup {<<Key, i>> : i \in failing}
          /\ raised' = IF failing = {} THEN raised ELSE raised \cup {Key}
    /\ lastRange' = calcDataRange(df_list, Key)
    /\ lastBins' = Bins(Entry, calcDataRange(df_list, Key))
    /\ pngs' = pngs \cup {Key}
    /\ pages' = IF pdf THEN SavePage(pages, Key) ELSE pages
    /\ Advance
    /\ UNCHANGED <<openFigures, restVars>>

\* The loop is over: main returns.
LoopEnd ==
    /\ pc = "loop"
    /\ idx > Len(common_keys)
    /\ pc' = "exiting"
    /\ exitKind' = "return"
    /\ UNCHANGED <<idx, visited, plotVars, restVars>>

\* The interpreter ends (return, exit() or an uncaught exception) and runs
\* the functions registered with atexit: exit_handler, lines 173-176.
ProcessExit ==
    /\ pc = "exiting"
    /\ closeCount' = closeCount + Len(exitHandlers)
    /\ pdfState' = IF exitHandlers # <<>> THEN "closed" ELSE pdfState
    /\ pc' = "terminated"
    /\ UNCHANGED <<inputVars, storeVars, common_columns, loadVars, common_keys, idx,
                   visited, exitHandlers, plotVars, exitKind, errReport>>

Next ==
    \/ GetCommonColumns
    \/ LoadStep
    \/ LoadReturn
    \/ Prepare
    \/ ColumnFirstValueRaises
    \/ ColumnSkipList
    \/ ColumnNoEntry
    \/ ColumnDisabled
    \/ ColumnRangeRaises
    \/ ColumnFuncRaises
    \/ ColumnPlot
    \/ LoopEnd
    \/ ProcessExit

Spec == Init /\ [][Next]_vars

(***************************************************************************)
(* calcDataRange on its own: frames of one column whose values cycle       *)
(* through [lo, lo + width], one of them with one more row, the outlier.   *)
(***************************************************************************)
Outliers == {20, 1000}

\* The raw frame of dataset i: rows values of the bulk, then the outlier if it
\* is this dataset's.
BulkFrame(rows, lo, width, outlier, hasOutlier) ==
    [cols |-> {ColB},
     rows |-> [j \in 1..(rows + (IF hasOutlier THEN 1 ELSE 0)) |->
                 [c \in {ColB} |->
                     IF j > rows THEN Num(outlier)
                     ELSE Num(lo + (j % (width + 1)))]]]

RangeInputs ==
    {[n |-> n, rows |-> r, lo |-> lo, width |-> w, outlier |-> o, at |-> a, entry |-> e] :
        n \in 1..MaxDatasets, r \in {1, BulkRows}, lo \in 0..MaxLow, w \in 1..MaxWidth,
        o \in Outliers, a \in 0..MaxDatasets, e \in {OptLog, OptFixed}}

InitRange ==
    /\ pc = "range"
    /\ \E in \in RangeInputs :
          /\ in.at <= in.n
          /\ df_list = [i \in 1..in.n |->
                          CleanFrame(BulkFrame(in.rows, in.lo, in.width, in.outlier,
                                               in.at = i), i)]
          /\ default_plots = [c \in {ColB} |-> in.entry]
    /\ datatupels = <<>>
    /\ ignorekeys = NoIgnore
    /\ pdf = FALSE
    /\ storeTables = <<>>
    /\ storeColumns = <<>>
    /\ common_columns = NoColumns
    /\ scales = <<>>
    /\ labels = <<>>
    /\ datafiles = <<>>
    /\ common_keys = <<ColB>>
    /\ idx = 1
    /\ visited = <<>>
    /\ pdfState = "unopened"
    /\ closeCount = 0
    /\ exitHandlers = <<>>
    /\ pages = <<>>
    /\ pngs = {}
    /\ openFigures = 0
    /\ warnings = {}
    /\ raised = {}
    /\ lastHist = <<>>
    /\ lastRange = NoRange
    /\ lastBins = <<>>
    /\ exitKind = ""
    /\ errReport = NoReport

\* main, lines 198 and 225-230, for the column ColB.
CalcRange ==
    /\ pc = "range"
    /\ lastRange' = calcDataRange(df_list, Key)
    /\ lastBins' = Bins(Entry, calcDataRange(df_list, Key))
    /\ pc' = "ranged"
    /\ UNCHANGED <<pages, pngs, openFigures, warnings, raised, lastHist>>
    /\ UNCHANGED <<idx, visited, exitKind, restVars>>

SpecRange == InitRange /\ [][CalcRange]_vars

(***************************************************************************)
(* loadData's cleaning of one frame on its own (lines 109-111), on every   *)
(* frame of at most MaxRows rows over all the cells.  df_list holds the    *)
(* frame read_data returned, then the frame that is appended to df_list.   *)
(***************************************************************************)
InitLoad ==
    /\ pc = "read"
    /\ \E n \in 1..MaxDatasets : datatupels = DataTupels(n)
    /\ \E cols \in SUBSET ColumnNames :
       \E raw \in FramesOf(cols, MaxRows, CellValues) :
          /\ storeColumns = <<cols>>
          /\ df_list = <<raw>>
    /\ ignorekeys = NoIgnore
    /\ pdf = FALSE
    /\ default_plots \in DefaultPlotsChoices
    /\ storeTables = <<{EventsTable}>>
    /\ common_columns = NoColumns
    /\ scales = <<>>
    /\ labels = <<>>
    /\ datafiles = <<>>
    /\ common_keys = <<>>
    /\ idx = 1
    /\ visited = <<>>
    /\ pdfState = "unopened"
    /\ closeCount = 0
    /\ exitHandlers = <<>>
    /\ pages = <<>>
    /\ pngs = {}
    /\ openFigures = 0
    /\ warnings = {}
    /\ raised = {}
    /\ lastHist = <<>>
    /\ lastRange = NoRange
    /\ lastBins = <<>>
    /\ exitKind = ""
    /\ errReport = NoReport

\* loadData, lines 109-119, for the last dataset of datatupels.
CleanStep ==
    /\ pc = "read"
    /\ df_list' = <<CleanFrame(df_list[1], datatupels[Len(datatupels)].datafile)>>
    /\ common_keys' = Sorted(KeysStep(1, common_keys,
                         CleanFrame(df_list[1], datatupels[Len(datatupels)].datafile).cols))
    /\ pc' = "cleaned"
    /\ UNCHANGED <<inputVars, storeVars, common_columns, scales, labels, datafiles, idx,
                   visited, pdfVars, plotVars, exitKind, errReport>>

SpecLoad == InitLoad /\ [][CleanStep]_vars

(***************************************************************************)
(* The properties.                                                         *)
(***************************************************************************)
\* str.lower() of one character.
Lower(c) ==
    CASE c = "A" -> "a"
      [] c = "B" -> "b"
      [] OTHER -> c

\* str.lower()
LowerStr(s) == [i \in DOMAIN s |-> Lower(s[i])]

\* The entries of a comma separated list.
RECURSIVE SplitLoop(_, _, _)
SplitLoop(s, i, cur) ==
    IF i > Len(s) THEN {cur}
    ELSE IF s[i] = "," THEN {cur} \cup SplitLoop(s, i + 1, <<>>)
    ELSE SplitLoop(s, i + 1, Append(cur, s[i]))

Entries(s) == SplitLoop(s, 1, <<>>)

\* The keys loadData returned: those of every frame.
LoadedKeys ==
    {k \in UNION {df_list[i].cols : i \in DOMAIN df_list} :
        \A i \in DOMAIN df_list : k \in df_list[i].cols}

Uncaught == {"KeyError", "TypeError", "IndexError", "func"}

\* C1: every column name the plot loop iterates over is a column of the named
\* table of every dataset's store.
C1_IteratedColumnsInEveryStore ==
    \A i \in DOMAIN visited : \A d \in DOMAIN storeColumns : visited[i] \in storeColumns[d]

\* C2: a column whose processing raised is skipped with a logged warning, has no
\* page in the document, and the loop goes on with the next column.
C2_FailedColumnSkipped ==
    \A k \in raised \cap common_columns.cols :
        /\ \E w \in warnings : w[1] = k
        /\ k \notin Range(pages)
        /\ exitKind \notin Uncaught

\* C3: with an ignore list, exactly the loaded columns that match one of its
\* entries are dropped.
C3_IgnoredExactlyMatching ==
    (pc = "loop" /\ ~ignorekeys.none) =>
        Range(common_keys) = {k \in LoadedKeys : k \notin Entries(ignorekeys.s)}

\* C4: no frame loadData returns holds a non-finite value.
C4_LoadedFramesFinite ==
    pc = "cleaned" =>
    \A i \in DOMAIN df_list : \A j \in DOMAIN df_list[i].rows :
        \A c \in df_list[i].cols :
            df_list[i].rows[j][c].k \notin {"posinf", "neginf", "nan"}

\* The run ended by main returning, with --pdf and without any exception.
CleanPdfRun ==
    pc = "terminated" /\ exitKind = "return" /\ pdf /\ raised = {}

Pageable(k) ==
    /\ k \in DOMAIN default_plots
    /\ default_plots[k].kind # "False"
    /\ df_list[1].rows[1][k].k # "list"

C6_MissingTableReported ==
    \A m \in MissingTable(storeTables) :
        pc \in {"exiting", "terminated"} =>
            /\ pages = <<>>
            /\ errReport.logged
            /\ errReport.datafile = datatupels[m].datafile
            /\ errReport.tablename = datatupels[m].tablename
            /\ errReport.keys = storeTables[m]

\* C7: once opened, the PDF document is closed exactly once on every way out of
\* the run: never left open at the end of the process, never closed twice.
C7_PdfClosedExactlyOnce ==
    /\ closeCount <= 1
    /\ pdfState = "closed" => closeCount = 1
    /\ (pc = "terminated" /\ pdfState # "unopened") =>
           (pdfState = "closed" /\ closeCount = 1)

C7_Witness ==
    /\ pc = "terminated"
    /\ exitKind \in Uncaught
    /\ pages # <<>>
    /\ pdfState = "closed"
    /\ closeCount = 1

\* C8: the plot loop visits the columns in case-insensitive lexicographic order.
C8_CaseInsensitiveOrder ==
    \A i, j \in DOMAIN visited :
        i < j => ~StrLt(LowerStr(visited[j]), LowerStr(visited[i]))

\* C10: every histogram of a plotted column pairs the frame of a dataset with
\* the scale and the label given for that dataset on the command line, and the
\* scales stay those of the command line during the whole loop.
C10_WeightsPaired ==
    /\ pc = "loop" =>
          /\ Len(scales) = Len(datatupels)
          /\ \A i \in DOMAIN datatupels : scales[i] = datatupels[i].scale
    /\ \A j \in DOMAIN lastHist :
          /\ j \in DOMAIN datatupels
          /\ lastHist[j].normed = datatupels[j].scale
          /\ lastHist[j].label = datatupels[j].label
          /\ lastHist[j].df = df_list[j]
          /\ \A r \in DOMAIN df_list[j].rows :
                df_list[j].rows[r][FilenameKey] = Str(datatupels[j].datafile)

C10_Witness ==
    /\ Cardinality(pngs) = 2
    /\ Len(lastHist) = 2
    /\ lastHist[1].normed # lastHist[2].normed
    /\ lastHist[2].df.rows # <<>>

(***************************************************************************)
(* calcDataRange against the percentiles of the pooled values of ColB.     *)
(***************************************************************************)
Cells == {<<i, j>> \in (DOMAIN df_list) \X (1..(BulkRows + 1)) :
             j \in DOMAIN df_list[i].rows}
CellAt(c) == df_list[c[1]].rows[c[2]][ColB].v
Pooled == {CellAt(c) : c \in Cells}
GlobalMax == CHOOSE v \in Pooled : \A w \in Pooled : w <= v
GlobalMin == CHOOSE v \in Pooled : \A w \in Pooled : v <= w

\* The j-th smallest of the pooled values, j from 1.
Kth(j) ==
    CHOOSE v \in Pooled :
        /\ Cardinality({c \in Cells : CellAt(c) < v}) < j
        /\ j <= Cardinality({c \in Cells : CellAt(c) <= v})

\* 1000 times the 99.9th percentile (linear interpolation between the ranks).
Percentile999 ==
    LET pos == 999 * (Cardinality(Cells) - 1)
        lower == Kth((pos \div 1000) + 1)
        upper == IF (pos \div 1000) + 2 <= Cardinality(Cells)
                 THEN Kth((pos \div 1000) + 2) ELSE lower
    IN  1000 * lower + (pos % 1000) * (upper - lower)

\* One outlier, more than 10% of the full range above the 99.9th percentile.
OutlierCase ==
    /\ pc = "ranged"
    /\ Cardinality({c \in Cells : CellAt(c) = GlobalMax}) = 1
    /\ (1000 * GlobalMax - Percentile999) * 10 > 1000 * (GlobalMax - GlobalMin)

====
